---- MODULE Spec2Model ----
(***************************************************************************)
(* Model of spy_nav_tracker.py: a Streamlit script that, on every run of   *)
(* the script (a "render pass"), calls update_data() to poll two prices,   *)
(* appends a sample to a rolling buffer kept in st.session_state, renders  *)
(* the buffer and then decides whether to rerun itself.                    *)
(*                                                                         *)
(* Time is counted in tenths of a second: 0.9 s is 9, 1 s is 10, two       *)
(* minutes are 1200.  Dollar amounts are counted in thousandths of a       *)
(* dollar and index closes in whole points, so that the arithmetic of the  *)
(* program is exact on the values the model draws.  None is the empty      *)
(* sequence and a value v is <<v>>.                                        *)
(***************************************************************************)
EXTENDS Integers, Sequences, FiniteSets, TLC

VARIABLES
    data,          \* st.session_state.data: the rows of the DataFrame, oldest first
    last_update,   \* st.session_state.last_update
    now,           \* the wall clock read by datetime.now()
    pc,            \* where the script is: "button", "update", "render", "refresh", "rest"
    clicked,       \* st.button("Force Refresh Data") returns True on this run
    updated,       \* the value update_data() returned on this run
    view,          \* what this run of the script has put on the page so far
    hist,          \* history: every sample update_data ever appended, in order
    got,           \* history: what the two fetchers returned on this run, if invoked
    lastAttempt,   \* history: current_time of the last fetch attempt since the last Force Refresh
    nUser,         \* history: user interactions so far (clicks and manual reruns)
    everFailed     \* history: some fetch has failed in this session

vars == <<data, last_update, now, pc, clicked, updated, view,
          hist, got, lastAttempt, nUser, everFailed>>

----------------------------------------------------------------------------
(* Program constants *)

DEBOUNCE == 9          \* update_data: time_diff < 0.9
RERUN_AFTER == 10      \* auto-refresh: time_since_update >= 1
SLEEP == 1             \* time.sleep(0.1)
RESET_AGE == 1200      \* timedelta(minutes=2)
MAX_ROWS == 3600       \* iloc[-3600:]
TABLE_ROWS == 15       \* head(15)

(* Bounds of the model *)

MaxTime == 11          \* the clock stops advancing here
MaxFetch == 9          \* the longest the two downloads take together
MaxUser == 2           \* user interactions per session

None == <<>>
Some(v) == <<v>>

PriceValues == {500000, 501000}   \* closes of SPY the upstream may report
IndexValues == {5000}             \* closes of ^GSPC the upstream may report
NoiseValues == {-1, 1}            \* draws of np.random.normal(0, 0.001), in thousandths

\* What yf.download may do: raise, return an empty frame, or return rows
\* whose last Close is v.
Responses(values) ==
    {[kind |-> "error", close |-> 0], [kind |-> "empty", close |-> 0]}
        \cup {[kind |-> "rows", close |-> v] : v \in values}

----------------------------------------------------------------------------
(* Pure functions *)

fetch_spy_price(resp) ==
    IF resp.kind = "error" THEN None
    ELSE IF resp.kind = "rows" THEN Some(resp.close)
    ELSE None

\* sp500_value * 0.1 * (1 + noise): points * 1000 / 10 is the scaled value in
\* thousandths of a dollar, and (1000 + noise) / 1000 is 1 + noise.
calculate_approx_nav(resp, noise) ==
    IF resp.kind = "error" THEN None
    ELSE IF resp.kind = "rows"
         THEN Some((((resp.close * 1000) \div 10) * (1000 + noise)) \div 1000)
         ELSE None

\* Mutant: iloc[:k], the first k rows.
FirstRows(s, k) ==
    IF Len(s) > k THEN SubSeq(s, 1, k) ELSE s

LastRows(s, k) ==
    IF Len(s) > k THEN SubSeq(s, Len(s) - k + 1, Len(s)) ELSE s

\* Mutant: the operands of the subtraction swapped.
NewRowSwapped(current_time, spy_price, nav_value) ==
    [timestamp  |-> current_time,
     spy_price  |-> spy_price,
     nav_value  |-> nav_value,
     difference |-> nav_value - spy_price]

NewRow(current_time, spy_price, nav_value) ==
    [timestamp  |-> current_time,
     spy_price  |-> spy_price,
     nav_value  |-> nav_value,
     difference |-> spy_price - nav_value]

\* Mutant: the rows are never cut.
EvictNever(rows) == rows

Evict(rows) ==
    IF Len(rows) > MAX_ROWS THEN LastRows(rows, MAX_ROWS) ELSE rows

\* time_diff < 0.9, in thousandths of a second against tenths.  A threshold
\* of the wrong unit is the mutant.
DebouncedWrongUnit(current_time, last) == (current_time - last) * 10 < DEBOUNCE

Debounced(current_time, last) == current_time - last < DEBOUNCE

\* Mutant: last_update assigned outside the if.
SkippedStamped(current_time, rows, last) ==
    [data |-> rows, last_update |-> current_time, ret |-> FALSE, ran |-> TRUE]

\* The final "return False": a fetcher returned None.
Skipped(current_time, rows, last) ==
    [data |-> rows, last_update |-> last, ret |-> FALSE, ran |-> TRUE]

\* Mutant: the assignment to last_update forgotten.
AppendedUnstamped(current_time, rows, last, row) ==
    [data |-> Evict(Append(rows, row)),
     last_update |-> last, ret |-> TRUE, ran |-> TRUE]

\* The body of the if: concat, cut to 3600, stamp last_update, return True.
Appended(current_time, rows, last, row) ==
    [data |-> Evict(Append(rows, row)),
     last_update |-> current_time, ret |-> TRUE, ran |-> TRUE]

\* update_data(), given the clock reading and what the two fetchers returned.
\* ran: whether the fetchers were invoked at all.
update_data(current_time, rows, last, spy_price, nav_value) ==
    IF Debounced(current_time, last)
    THEN [data |-> rows, last_update |-> last, ret |-> FALSE, ran |-> FALSE]
    ELSE IF spy_price # None /\ nav_value # None
         THEN Appended(current_time, rows, last,
                       NewRow(current_time, spy_price[1], nav_value[1]))
         ELSE Skipped(current_time, rows, last)

----------------------------------------------------------------------------
(* The render pass *)

IsAscending(rows) ==
    \A i \in 1..(Len(rows) - 1) : rows[i].timestamp < rows[i + 1].timestamp

Reverse(rows) == [i \in 1..Len(rows) |-> rows[Len(rows) + 1 - i]]

RECURSIVE InsertDesc(_, _)
InsertDesc(row, sorted) ==
    IF sorted = <<>> THEN <<row>>
    ELSE IF row.timestamp > Head(sorted).timestamp THEN <<row>> \o sorted
    ELSE <<Head(sorted)>> \o InsertDesc(row, Tail(sorted))

RECURSIVE SortDescFrom(_, _)
SortDescFrom(rows, i) ==
    IF i > Len(rows) THEN <<>>
    ELSE InsertDesc(rows[i], SortDescFrom(rows, i + 1))

\* sort_values('timestamp', ascending=False).  Rows whose timestamps already
\* ascend strictly come out reversed; anything else is sorted.
sort_values_desc(rows) ==
    IF IsAscending(rows) THEN Reverse(rows) ELSE SortDescFrom(rows, 1)

head(rows, k) == IF Len(rows) > k THEN SubSeq(rows, 1, k) ELSE rows

\* Mutant: shift(1), the change from the newer row.
TableRowShiftedUp(slice, i) ==
    LET prev == IF i > 1 THEN Some(slice[i - 1].spy_price) ELSE None
    IN  [timestamp      |-> slice[i].timestamp,
         spy_price      |-> slice[i].spy_price,
         prev_spy_price |-> prev,
         price_change   |-> IF prev = None THEN None
                            ELSE Some(slice[i].spy_price - prev[1]),
         nav_value      |-> slice[i].nav_value,
         difference     |-> slice[i].difference]

\* shift(-1) on spy_price, then the change from it; the last row of the
\* slice has no previous price (NaN).
TableRow(slice, i) ==
    LET prev == IF i < Len(slice) THEN Some(slice[i + 1].spy_price) ELSE None
    IN  [timestamp      |-> slice[i].timestamp,
         spy_price      |-> slice[i].spy_price,
         prev_spy_price |-> prev,
         price_change   |-> IF prev = None THEN None
                            ELSE Some(slice[i].spy_price - prev[1]),
         nav_value      |-> slice[i].nav_value,
         difference     |-> slice[i].difference]

table_data(rows) ==
    LET slice == head(sort_values_desc(rows), TABLE_ROWS)
    IN  [i \in 1..Len(slice) |-> TableRow(slice, i)]

NothingShown ==
    [placeholder |-> FALSE, latest |-> None, has_table |-> FALSE,
     table |-> <<>>, caption |-> None, success |-> FALSE]

\* Everything between update_data() and the auto-refresh.
Render(rows, last, upd) ==
    IF rows # <<>>
    THEN [placeholder |-> FALSE,
          latest      |-> Some(rows[Len(rows)]),
          has_table   |-> Len(rows) > 1,
          table       |-> IF Len(rows) > 1 THEN table_data(rows) ELSE <<>>,
          caption     |-> Some(last),
          success     |-> upd]
    ELSE [placeholder |-> TRUE, latest |-> None, has_table |-> FALSE,
          table |-> <<>>, caption |-> None, success |-> upd]

----------------------------------------------------------------------------
(* The session *)

NotCalled == [ran |-> FALSE, spy_price |-> None, nav_value |-> None]

\* A session that has just been opened: both keys are missing from
\* st.session_state and the script starts its first run.
Init ==
    /\ data = <<>>
    /\ now = 0
    /\ last_update = now - RESET_AGE
    /\ pc = "button"
    /\ clicked = FALSE
    /\ updated = FALSE
    /\ view = NothingShown
    /\ hist = <<>>
    /\ got = NotCalled
    /\ lastAttempt = None
    /\ nUser = 0
    /\ everFailed = FALSE

\* A run of the script starts from its first line: nothing is on the page
\* yet and update_data() has not been called.
StartRun ==
    /\ pc' = "button"
    /\ updated' = FALSE
    /\ got' = NotCalled
    /\ view' = NothingShown

\* if st.button("Force Refresh Data"): reset last_update and rerun.
Button ==
    /\ pc = "button"
    /\ IF clicked
       THEN /\ last_update' = now - RESET_AGE
            /\ clicked' = FALSE
            /\ StartRun
            /\ lastAttempt' = None
       ELSE /\ pc' = "update"
            /\ UNCHANGED <<last_update, clicked, lastAttempt, updated, got, view>>
    /\ UNCHANGED <<data, now, hist, nUser, everFailed>>

\* updated = update_data().  The two downloads take d tenths of a second.
UpdateData ==
    /\ pc = "update"
    /\ \E spy \in Responses(PriceValues), idx \in Responses(IndexValues),
          noise \in NoiseValues, d \in {1, MaxFetch} :
         LET spy_price == fetch_spy_price(spy)
             nav_value == calculate_approx_nav(idx, noise)
             r == update_data(now, data, last_update, spy_price, nav_value)
         IN  /\ data' = r.data
             /\ last_update' = r.last_update
             /\ updated' = r.ret
             /\ got' = IF r.ran
                       THEN [ran |-> TRUE, spy_price |-> spy_price,
                             nav_value |-> nav_value]
                       ELSE NotCalled
             /\ IF r.ran
                THEN /\ now + d <= MaxTime
                     /\ now' = now + d
                     /\ lastAttempt' = Some(now)
                     /\ everFailed' = (everFailed \/ ~r.ret)
                     /\ hist' = IF r.ret THEN Append(hist, r.data[Len(r.data)])
                                         ELSE hist
                ELSE UNCHANGED <<now, lastAttempt, everFailed, hist>>
    /\ pc' = "render"
    /\ UNCHANGED <<clicked, view, nUser>>

RenderPass ==
    /\ pc = "render"
    /\ view' = Render(data, last_update, updated)
    /\ pc' = "refresh"
    /\ UNCHANGED <<data, last_update, now, clicked, updated,
                   hist, got, lastAttempt, nUser, everFailed>>

\* time.sleep(0.1), then st.rerun() if a second has passed since last_update;
\* otherwise the script ends and the session waits for the user.
AutoRefresh ==
    /\ pc = "refresh"
    /\ now + SLEEP <= MaxTime
    /\ now' = now + SLEEP
    /\ IF now' - last_update >= RERUN_AFTER
       THEN StartRun
       ELSE pc' = "rest" /\ UNCHANGED <<updated, got, view>>
    /\ UNCHANGED <<data, last_update, clicked, hist, lastAttempt, nUser, everFailed>>

\* Time passes while the script is not running.
Wait ==
    /\ pc = "rest"
    /\ now < MaxTime
    /\ now' = now + 1
    /\ UNCHANGED <<data, last_update, pc, clicked, updated, view,
                   hist, got, lastAttempt, nUser, everFailed>>

\* The user presses "Force Refresh Data": Streamlit abandons the running
\* pass, if any, and runs the script with the button reporting True.
Click ==
    /\ nUser < MaxUser
    /\ nUser' = nUser + 1
    /\ clicked' = TRUE
    /\ StartRun
    /\ UNCHANGED <<data, last_update, now, hist, lastAttempt, everFailed>>

\* Streamlit reruns the script for a reason other than the button (the
\* user's Rerun command, a reconnecting browser).
Rerun ==
    /\ nUser < MaxUser
    /\ nUser' = nUser + 1
    /\ StartRun
    /\ UNCHANGED <<data, last_update, now, clicked, hist, lastAttempt, everFailed>>

Next ==
    \/ Button
    \/ UpdateData
    \/ RenderPass
    \/ AutoRefresh
    \/ Wait
    \/ Click
    \/ Rerun

Spec == Init /\ [][Next]_vars

\* A session that has been running for about an hour: n samples taken one
\* second apart, the last of them a second ago, and the script starting its
\* next run.  Its user has interacted as often as the model lets a user
\* interact; from here on the script runs on its own.
WarmRow(i, n) ==
    NewRow(0 - RERUN_AFTER * (n - i + 1),
           IF i % 2 = 0 THEN 500000 ELSE 501000,
           calculate_approx_nav([kind |-> "rows", close |-> 5000], 2 * (i % 2) - 1)[1])

Warm(n) == [i \in 1..n |-> WarmRow(i, n)]

WarmInit ==
    /\ \E n \in (MAX_ROWS - 1)..MAX_ROWS : data = Warm(n)
    /\ now = 0
    /\ last_update = now - RERUN_AFTER
    /\ pc = "button"
    /\ clicked = FALSE
    /\ updated = FALSE
    /\ view = NothingShown
    /\ hist = data
    /\ got = NotCalled
    /\ lastAttempt = Some(last_update)
    /\ nUser = MaxUser
    /\ everFailed = FALSE

\* Sessions of both ages.
LongInit == Init \/ WarmInit

LongSpec == LongInit /\ [][Next]_vars

----------------------------------------------------------------------------
(* Properties *)

Min(a, b) == IF a < b THEN a ELSE b

\* The step is update_data() returning: the script moves from the call to
\* the render.
TickStep == pc = "update" /\ pc' = "render"

\* The script has rendered and data is what it rendered.
Rendered == pc \in {"refresh", "rest"}

\* C1: the rolling buffer never holds more than 3600 samples.
BufferBounded == Len(data) <= MAX_ROWS

\* A successful tick on a full buffer has just evicted.
C1_Witness ==
    /\ pc = "render" /\ updated
    /\ Len(data) = MAX_ROWS
    /\ Len(hist) = MAX_ROWS + 1

\* C2: the buffer is the last min(n, 3600) of the n samples aggregated so
\* far, in the order in which they were aggregated.
FifoEviction ==
    /\ Len(data) = Min(Len(hist), MAX_ROWS)
    /\ data = SubSeq(hist, Len(hist) - Len(data) + 1, Len(hist))

\* Two samples have been evicted, one at a time.
C2_Witness ==
    /\ Len(hist) = MAX_ROWS + 2
    /\ data[1] = hist[3]
    /\ data[MAX_ROWS] = hist[MAX_ROWS + 2]

\* C3: a tick less than the debounce interval (0.9 s in the code) after
\* last_update returns False, invokes no fetcher and leaves the buffer and
\* last_update as they were.
DebounceNoOp ==
    [][(TickStep /\ now - last_update < DEBOUNCE)
         => /\ ~updated'
            /\ ~got'.ran
            /\ data' = data
            /\ hist' = hist
            /\ last_update' = last_update]_vars

\* A tick half a second after a sample was taken has returned.
C3_Witness ==
    /\ pc = "render" /\ ~got.ran /\ ~updated
    /\ data # <<>>
    /\ now - last_update = 5

FailedTick ==
    [][/\ (/\ TickStep
           /\ got'.ran
           /\ (got'.spy_price = None \/ got'.nav_value = None))
            => /\ ~updated'
               /\ data' = data
               /\ hist' = hist
               /\ last_update' = last_update
       /\ (/\ pc = "refresh"
           /\ got.ran
           /\ (got.spy_price = None \/ got.nav_value = None))
            => pc' = "button"]_vars

\* The price failed, the NAV did not, and the buffer held samples.
C5_Witness ==
    /\ pc = "render"
    /\ got.ran /\ got.spy_price = None /\ got.nav_value # None
    /\ data # <<>>

RowsDerived ==
    \A i \in 1..Len(data) :
        data[i].difference = data[i].spy_price - data[i].nav_value

\* Every row of the buffer after a step was in it before the step, in the
\* same order, except a row appended by a tick from what that tick fetched.
RowsKept ==
    \/ data' = data
    \/ /\ TickStep
       /\ updated'
       /\ LET new == data'[Len(data')]
              kept == Len(data') - 1
          IN  /\ new.spy_price = got'.spy_price[1]
              /\ new.nav_value = got'.nav_value[1]
              /\ kept <= Len(data)
              /\ SubSeq(data', 1, kept)
                   = SubSeq(data, Len(data) - kept + 1, Len(data))

\* C6: every sample has difference = spy_price - nav_value, from the price
\* and NAV of its own tick, and no step changes a stored sample.
DifferenceDerived == []RowsDerived /\ [][RowsKept]_vars

\* Samples with a positive and with a negative difference are stored.
C6_Witness ==
    /\ Len(data) >= 2
    /\ \E i, j \in 1..Len(data) : data[i].difference > 0 /\ data[j].difference < 0

\* C7: two consecutive fetch attempts with no Force Refresh between them are
\* at least the debounce interval apart.  Stated for the script's own reruns:
\* the user has not touched the page.
NoRetryStorm ==
    [][(TickStep /\ got'.ran /\ lastAttempt # None /\ nUser = 0)
         => now - lastAttempt[1] >= DEBOUNCE]_vars

\* C8: with no user interaction and no failed fetch the script never ends a
\* run without scheduling the next one.
NeverAtRest == (nUser = 0 /\ ~everFailed) => pc # "rest"

\* A table row for each of the k newest samples, newest first, each with the
\* change from the next older displayed row.
ShowsNewest(k) ==
    /\ Len(view.table) = k
    /\ \A r \in 1..k :
         LET row == data[Len(data) + 1 - r]
         IN  /\ view.table[r].timestamp = row.timestamp
             /\ view.table[r].spy_price = row.spy_price
             /\ view.table[r].nav_value = row.nav_value
             /\ view.table[r].difference = row.difference
             /\ view.table[r].price_change =
                  IF r < k THEN Some(row.spy_price - data[Len(data) - r].spy_price)
                           ELSE None

\* C9 as claimed: the placeholder exactly when the buffer is empty, and for
\* every non-empty buffer the table of the min(15, n) newest samples.
TableForEveryBuffer ==
    Rendered =>
        /\ view.placeholder <=> data = <<>>
        /\ data # <<>> => view.has_table /\ ShowsNewest(Min(TABLE_ROWS, Len(data)))

\* C9 amended: the placeholder exactly when the buffer is empty, no table for
\* a buffer of one sample, and the table for every buffer of two or more.
TableForTwoOrMore ==
    Rendered =>
        /\ view.placeholder <=> data = <<>>
        /\ Len(data) = 1 => ~view.has_table /\ view.table = <<>>
        /\ Len(data) >= 2 => view.has_table /\ ShowsNewest(Min(TABLE_ROWS, Len(data)))

\* A buffer of more than 15 samples is on the page as 15 rows.
C9_Witness ==
    /\ Rendered
    /\ Len(data) > TABLE_ROWS
    /\ view.has_table
    /\ Len(view.table) = TABLE_ROWS

\* C10: while the buffer is not empty last_update, and with it the "Last
\* updated" caption, is the timestamp of the newest sample.
LastUpdateIsNewest ==
    data # <<>> =>
        /\ last_update = data[Len(data)].timestamp
        /\ view.caption # None => view.caption[1] = data[Len(data)].timestamp

====
